---- MODULE Spec2Model ----
(***************************************************************************)
(* Merkle tree of src/src/merkle/index.ts: MerkleTree.build, getProof,     *)
(* verifyProof, and the hash helper they share.                            *)
(*                                                                         *)
(* Strings and byte arrays are sequences of tokens.  A token is a record   *)
(* [k, c, p]:                                                              *)
(*   k = "chr"   one character of a data item, c its code                  *)
(*   k = "byte"  the UTF-8 byte of the character c                         *)
(*   k = "raw"   the 32 raw bytes of SHA-256 applied to the byte array p   *)
(*   k = "hex"   the 64 lowercase hex characters spelling the digest of p  *)
(*   k = "hexb"  the 64 UTF-8 bytes of those 64 hex characters             *)
(* SHA-256 is a free constructor over its input, so it has no collisions.  *)
(***************************************************************************)
EXTENDS Integers, Sequences, FiniteSets, TLC

\* Bounds of the model.
MaxItems == 5
NumChars == 2
MaxRebuildItems == 4

\* SHA-256 digest length in bytes.
DigestBytes == 32

\* b.toString(16).padStart(2, '0'): hex characters per digest byte.
HexPerByte == 2

HexLen == DigestBytes * HexPerByte

Chr(n) == [k |-> "chr", c |-> n, p |-> <<>>]

\* window.crypto.subtle.digest('SHA-256', buffer)
Sha256(buffer) == [k |-> "raw", c |-> 0, p |-> buffer]

\* Array.from(new Uint8Array(digest)).map(b => b.toString(16).padStart(2,'0')).join('')
ToHex(digest) == << [k |-> "hex", c |-> 0, p |-> digest.p] >>

\* new TextEncoder().encode(data), on well-formed strings: every character
\* has its own bytes, so different strings have different encodings.
TextEncode(data) ==
    [j \in 1..Len(data) |->
        IF data[j].k = "chr" THEN [k |-> "byte", c |-> data[j].c, p |-> <<>>]
        ELSE [k |-> "hexb", c |-> 0, p |-> data[j].p]]

\* hash(data), in the branch where window.crypto.subtle exists
hash(data) == ToHex(Sha256(TextEncode(data)))

\* Number of bytes a token stands for.
Width(tok) ==
    CASE tok.k = "byte" -> 1
      [] tok.k = "hexb" -> HexLen
      [] tok.k = "raw"  -> DigestBytes
      [] OTHER -> 0

RECURSIVE ByteLen(_)
ByteLen(bytes) ==
    IF bytes = <<>> THEN 0 ELSE Width(Head(bytes)) + ByteLen(Tail(bytes))

\* The byte array the hash primitive was applied to in order to get h.
HashInput(h) == h[1].p

\* new MerkleNode(hash, left, right, data); 0 is undefined, data is <<>> or <<item>>
MerkleNode(h, left, right, data) ==
    [hash |-> h, left |-> left, right |-> right,
     isLeaf |-> (left = 0 /\ right = 0), data |-> data]

\* Data items the caller may type: one-character strings.
Items == { << Chr(n) >> : n \in 1..NumChars }

RECURSIVE ListsOfLen(_)
ListsOfLen(n) ==
    IF n = 0 THEN { <<>> }
    ELSE { Append(l, x) : l \in ListsOfLen(n - 1), x \in Items }

\* The characters are interchangeable, so the first build takes the lists in
\* which every character is first used after all smaller ones.
FirstUseOrdered(l) ==
    \A j \in 1..Len(l) :
        \/ l[j][1].c = 1
        \/ \E m \in 1..j - 1 : l[m][1].c = l[j][1].c - 1

Lists ==
    { l \in UNION { ListsOfLen(n) : n \in 0..MaxItems } : FirstUseOrdered(l) }

RebuildLists ==
    { l \in UNION { ListsOfLen(n) : n \in 0..MaxRebuildItems } : FirstUseOrdered(l) }

\* What the user can turn the input into before building again: the same
\* list, or the list with one item appended, dropped, replaced or swapped
\* with its neighbour.
Edits(l) ==
    LET n == Len(l)
    IN  { l }
        \cup (IF n < MaxRebuildItems THEN { Append(l, x) : x \in Items } ELSE {})
        \cup (IF n > 0 THEN { SubSeq(l, 1, n - 1) } ELSE {})
        \cup { [l EXCEPT ![j] = x] : j \in 1..n, x \in Items }
        \cup { [l EXCEPT ![j] = l[j + 1], ![j + 1] = l[j]] : j \in 1..n - 1 }

ErrEmpty == "Cannot build Merkle tree with 0 items"
ErrCrypto == "No secure crypto implementation found for SHA-256"
ErrIndex == "Invalid leaf index"
ErrMalformed == "Malformed tree"

VARIABLES
    cryptoOk,    \* window.crypto.subtle.digest is a function
    dataItems,   \* argument of MerkleTree.build
    pc,          \* position of build: idle, hashing, buildTree, built, rejected
    error,       \* message of the Error build rejected with, "" if none
    hashes,      \* results of the hash promises, <<>> while pending
    pending,     \* the items (1-based) whose digest has not completed
    hashCalls,   \* number of hash() calls made by the current build
    heap,        \* every MerkleNode allocated; a node's identity is its index
    nodes,       \* buildTree: the level being reduced
    nextLevel,   \* buildTree: the parents pushed so far
    i,           \* buildTree: loop index (0-based)
    levels,      \* the levels buildTree was called with, leaf level first
    leaves,      \* MerkleTree.leaves
    root,        \* MerkleTree.root, 0 before construction
    leafMap,     \* MerkleTree.leafMap
    pDone,       \* getProof was called on the tree
    pIndex,      \* its index argument
    proof,       \* the proof it returned
    pErr,        \* message of the Error it threw, "" if none
    vDone,       \* verifyProof was called
    vKind,       \* how its arguments differ from (data, proof, root) of pIndex
    vK,          \* the step that differs (0-based), or the steps dropped
    vData,       \* its data argument
    vProof,      \* its proof argument
    vRoot,       \* its rootHash argument
    valid,       \* the boolean it returned
    prev         \* <<>> or the one record of the previous completed build

buildVars == << hashes, pending, hashCalls, heap, nodes, nextLevel, i, levels >>
treeVars == << leaves, root, leafMap >>
proofVars == << pDone, pIndex, proof, pErr >>
verifyVars == << vDone, vKind, vK, vData, vProof, vRoot, valid >>
vars == << cryptoOk, dataItems, pc, error, buildVars, treeVars, proofVars,
           verifyVars, prev >>

NoBuild ==
    /\ hashes = <<>> /\ pending = {} /\ hashCalls = 0 /\ heap = <<>>
    /\ nodes = <<>>
    /\ nextLevel = <<>> /\ i = 0 /\ levels = <<>>
    /\ leaves = <<>> /\ root = 0 /\ leafMap = <<>>

NoProof == pDone = FALSE /\ pIndex = 0 /\ proof = <<>> /\ pErr = ""

NoVerify ==
    /\ vDone = FALSE /\ vKind = "" /\ vK = 0 /\ vData = <<>>
    /\ vProof = <<>> /\ vRoot = <<>> /\ valid = FALSE

Init ==
    /\ cryptoOk \in BOOLEAN
    /\ dataItems \in Lists
    /\ pc = "idle"
    /\ error = ""
    /\ NoBuild
    /\ NoProof
    /\ NoVerify
    /\ prev = <<>>

\* build, lines 71-75: the length check, then dataItems.map(item => hash(item))
\* starts one hash call per item; each call either throws or awaits the digest.
Build ==
    /\ pc = "idle"
    /\ IF Len(dataItems) = 0
       THEN /\ pc' = "rejected"
            /\ error' = ErrEmpty
            /\ UNCHANGED << hashes, pending, hashCalls >>
       ELSE IF ~cryptoOk
       THEN /\ pc' = "rejected"
            /\ error' = ErrCrypto
            /\ hashCalls' = Len(dataItems)
            /\ UNCHANGED << hashes, pending >>
       ELSE /\ pc' = "hashing"
            /\ error' = ""
            /\ hashCalls' = Len(dataItems)
            /\ hashes' = [j \in 1..Len(dataItems) |-> <<>>]
            /\ pending' = 1..Len(dataItems)
    /\ UNCHANGED << cryptoOk, dataItems, heap, nodes, nextLevel, i, levels,
                    treeVars, proofVars, verifyVars, prev >>

\* Results pushed in the order the promises settle.
ResultSlot_CompletionOrder(hs, pend, j) == Len(hs) - Cardinality(pend) + 1

\* Where Promise.all stores the value of the j-th promise: at its index.
ResultSlot(hs, pend, j) == j

\* hash, lines 15-18: one of the awaited digests completes, in any order, and
\* its promise resolves with the hex string.
HashResolve(j) ==
    /\ pc = "hashing"
    /\ j \in pending
    /\ pending' = pending \ { j }
    /\ LET slot == ResultSlot(hashes, pending, j)
       IN hashes' = [hashes EXCEPT ![slot] = hash(dataItems[j])]
    /\ UNCHANGED << cryptoOk, dataItems, pc, error, hashCalls, heap, nodes,
                    nextLevel, i, levels, treeVars, proofVars, verifyVars, prev >>

\* build, lines 76-78: Promise.all resolved; the leaf nodes are created in
\* input order and buildTree(leaves) is entered.
MakeLeaves ==
    /\ pc = "hashing"
    /\ pending = {}
    /\ LET n == Len(dataItems)
           newNodes == [j \in 1..n |-> MerkleNode(hashes[j], 0, 0, << dataItems[j] >>)]
           ids == [j \in 1..n |-> Len(heap) + j]
       IN /\ heap' = heap \o newNodes
          /\ leaves' = ids
          /\ nodes' = ids
          /\ levels' = << ids >>
    /\ nextLevel' = <<>>
    /\ i' = 0
    /\ pc' = "buildTree"
    /\ UNCHANGED << cryptoOk, dataItems, error, hashes, pending, hashCalls,
                    root, leafMap, proofVars, verifyVars, prev >>

\* The unpaired last node used twice instead of a new node.
PickRight_SameNode(hp, nds, idx) ==
    IF idx + 1 < Len(nds)
    THEN [hp |-> hp, right |-> nds[idx + 2]]
    ELSE [hp |-> hp, right |-> nds[idx + 1]]

\* buildTree, lines 153-159: the right node of the pair that starts at
\* nodes[idx] (0-based); an unpaired last node gets a new node with just its
\* hash.  Returns the heap after the allocation and the id of the right node.
PickRight(hp, nds, idx) ==
    IF idx + 1 < Len(nds)
    THEN [hp |-> hp, right |-> nds[idx + 2]]
    ELSE [hp |-> Append(hp, MerkleNode(hp[nds[idx + 1]].hash, 0, 0, <<>>)),
          right |-> Len(hp) + 1]

\* The parent's input with the right digest first.
ParentInput_RightFirst(leftHash, rightHash) == rightHash \o leftHash

\* buildTree, line 160: the string that is hashed for a parent.
ParentInput(leftHash, rightHash) == leftHash \o rightHash

\* buildTree, lines 151-162: one iteration of the loop.
BuildTreeStep ==
    /\ pc = "buildTree"
    /\ Len(nodes) # 1
    /\ i < Len(nodes)
    /\ LET left == nodes[i + 1]
           pick == PickRight(heap, nodes, i)
           right == pick.right
           parentHash == hash(ParentInput(pick.hp[left].hash, pick.hp[right].hash))
           hp2 == Append(pick.hp, MerkleNode(parentHash, left, right, <<>>))
       IN /\ heap' = hp2
          /\ nextLevel' = Append(nextLevel, Len(hp2))
    /\ hashCalls' = hashCalls + 1
    /\ i' = i + 2
    /\ UNCHANGED << cryptoOk, dataItems, pc, error, hashes, pending, nodes,
                    levels, treeVars, proofVars, verifyVars, prev >>

\* buildTree, line 163: return MerkleTree.buildTree(nextLevel)
BuildTreeRecurse ==
    /\ pc = "buildTree"
    /\ Len(nodes) # 1
    /\ i >= Len(nodes)
    /\ nodes' = nextLevel
    /\ levels' = Append(levels, nextLevel)
    /\ nextLevel' = <<>>
    /\ i' = 0
    /\ UNCHANGED << cryptoOk, dataItems, pc, error, hashes, pending, hashCalls,
                    heap, treeVars, proofVars, verifyVars, prev >>

\* build, lines 80-85: leaf hash -> the leaves with that hash, in leaf order.
RECURSIVE MakeLeafMap(_, _, _)
MakeLeafMap(hp, lvs, k) ==
    IF k = 0 THEN << >>
    ELSE LET m == MakeLeafMap(hp, lvs, k - 1)
             h == hp[lvs[k]].hash
             at == { j \in 1..Len(m) : m[j].key = h }
         IN IF at = {} THEN Append(m, [key |-> h, arr |-> << lvs[k] >>])
            ELSE [j \in 1..Len(m) |->
                     IF j \in at THEN [key |-> h, arr |-> Append(m[j].arr, lvs[k])]
                     ELSE m[j]]

\* buildTree, lines 147-149, then build, lines 79-86.
BuildTreeReturn ==
    /\ pc = "buildTree"
    /\ Len(nodes) = 1
    /\ root' = nodes[1]
    /\ leafMap' = MakeLeafMap(heap, leaves, Len(leaves))
    /\ pc' = "built"
    /\ UNCHANGED << cryptoOk, dataItems, error, buildVars, leaves, proofVars,
                    verifyVars, prev >>

\* getRootHash
getRootHash == heap[root].hash

\* getLeafHashes
getLeafHashes == [j \in 1..Len(leaves) |-> heap[leaves[j]].hash]

\* traverse, line 177: is this leaf the target?
IsTarget(hp, node, targetLeaf) == node = targetLeaf

\* The step of line 180 with the side of the target instead of the sibling's.
StepLeftFound_WrongSide(hp, node) ==
    [siblingHash |-> hp[hp[node].right].hash, direction |-> "left"]

\* traverse, line 180: the step pushed when the target is under node.left
StepLeftFound(hp, node) ==
    [siblingHash |-> hp[hp[node].right].hash, direction |-> "right"]

\* traverse, line 184: the step pushed when the target is under node.right
StepRightFound(hp, node) ==
    [siblingHash |-> hp[hp[node].left].hash, direction |-> "left"]

\* proof.unshift(step)
PushStep_Prepend(steps, step) == << step >> \o steps

\* proof.push(step)
PushStep(steps, step) == Append(steps, step)

\* generateProof.traverse, lines 176-188; steps is what the call pushed.
RECURSIVE traverse(_, _, _)
traverse(hp, node, targetLeaf) ==
    IF hp[node].isLeaf
    THEN [found |-> IsTarget(hp, node, targetLeaf), steps |-> <<>>, err |-> ""]
    ELSE IF hp[node].left = 0 \/ hp[node].right = 0
    THEN [found |-> FALSE, steps |-> <<>>, err |-> ErrMalformed]
    ELSE LET l == traverse(hp, hp[node].left, targetLeaf)
         IN IF l.err # "" THEN l
            ELSE IF l.found
            THEN [found |-> TRUE, err |-> "",
                  steps |-> PushStep(l.steps, StepLeftFound(hp, node))]
            ELSE LET r == traverse(hp, hp[node].right, targetLeaf)
                 IN IF r.err # "" THEN r
                    ELSE IF r.found
                    THEN [found |-> TRUE, err |-> "",
                          steps |-> PushStep(r.steps, StepRightFound(hp, node))]
                    ELSE [found |-> FALSE, steps |-> <<>>, err |-> ""]

\* generateProof, lines 170-192
generateProof(hp, rt, targetLeaf) == traverse(hp, rt, targetLeaf)

\* The index check with > for >=.
InvalidIndex_OffByOne(index, n) == index < 0 \/ index > n

\* getProof, line 117: the index check
InvalidIndex(index, n) == index < 0 \/ index >= n

\* this.leaves[index]; 0 is undefined
LeafAt(lvs, index) == IF index + 1 \in 1..Len(lvs) THEN lvs[index + 1] ELSE 0

\* getProof(index), index is 0-based as in the code
GetProof(index) ==
    /\ pc = "built"
    /\ pDone' = TRUE
    /\ pIndex' = index
    /\ IF InvalidIndex(index, Len(leaves))
       THEN /\ pErr' = ErrIndex
            /\ proof' = <<>>
       ELSE LET res == generateProof(heap, root, LeafAt(leaves, index))
            IN /\ pErr' = res.err
               /\ proof' = IF res.err = "" THEN res.steps ELSE <<>>
    /\ vDone' = FALSE /\ vKind' = "" /\ vK' = 0 /\ vData' = <<>>
    /\ vProof' = <<>> /\ vRoot' = <<>> /\ valid' = FALSE
    /\ UNCHANGED << cryptoOk, dataItems, pc, error, buildVars, treeVars, prev >>

\* The chain step without the test of the direction.
StepHash_IgnoreDirection(computedHash, step) ==
    hash(computedHash \o step.siblingHash)

\* The chain step with computedHash written for step.siblingHash at line 134.
StepHash_Typo(computedHash, step) ==
    IF step.direction = "left"
    THEN hash(computedHash \o computedHash)
    ELSE hash(computedHash \o step.siblingHash)

\* verifyProof, lines 133-137: one step of the chain
StepHash(computedHash, step) ==
    IF step.direction = "left"
    THEN hash(step.siblingHash \o computedHash)
    ELSE hash(computedHash \o step.siblingHash)

\* verifyProof, lines 132-138: the loop over the steps
RECURSIVE Chain(_, _)
Chain(computedHash, steps) ==
    IF steps = <<>> THEN computedHash
    ELSE Chain(StepHash(computedHash, Head(steps)), Tail(steps))

\* verifyProof, lines 126-140
verifyProof(data, prf, rootHash) == Chain(hash(data), prf) = rootHash

\* Digests a caller can substitute: every digest of the tree and one outside it.
AltDigests == { heap[n].hash : n \in 1..Len(heap) } \cup { hash(<<>>) }

\* Strings a caller can present as data: the items, and for every internal
\* node the string that was hashed to get its digest.
AltData ==
    Items \cup
    { heap[heap[n].left].hash \o heap[heap[n].right].hash :
        n \in { m \in 1..Len(heap) : ~heap[m].isLeaf } }

Flip(direction) == IF direction = "left" THEN "right" ELSE "left"

\* The calls verifyProof(data, prf, rootHash) a caller holding the proof of
\* leaf pIndex can make: the honest call, or one with a changed argument.
VerifyCalls ==
    LET d0 == dataItems[pIndex + 1]
        r0 == getRootHash
        n == Len(proof)
    IN  { [kind |-> "none", k |-> 0, data |-> d0, prf |-> proof, rootHash |-> r0] }
        \cup { [kind |-> "data", k |-> 0, data |-> d, prf |-> proof, rootHash |-> r0] :
                 d \in AltData \ { d0 } }
        \cup { [kind |-> "root", k |-> 0, data |-> d0, prf |-> proof, rootHash |-> r] :
                 r \in AltDigests \ { r0 } }
        \cup UNION { { [kind |-> "sibling", k |-> k - 1, data |-> d0, rootHash |-> r0,
                        prf |-> [proof EXCEPT ![k].siblingHash = s]] :
                          s \in AltDigests \ { proof[k].siblingHash } } : k \in 1..n }
        \cup { [kind |-> "direction", k |-> k - 1, data |-> d0, rootHash |-> r0,
                prf |-> [proof EXCEPT ![k].direction = Flip(proof[k].direction)]] :
                  k \in 1..n }
        \cup UNION { { [kind |-> "forged", k |-> k, data |-> d, rootHash |-> r0,
                        prf |-> SubSeq(proof, k + 1, n)] : d \in AltData } : k \in 1..n }

\* MerkleTree.verifyProof(data, prf, rootHash), called as App.selectLeaf calls
\* it: once after each getProof that returned a proof.
VerifyProof ==
    /\ pc = "built"
    /\ pDone
    /\ pErr = ""
    /\ ~vDone
    /\ \E call \in VerifyCalls :
        /\ vKind' = call.kind
        /\ vK' = call.k
        /\ vData' = call.data
        /\ vProof' = call.prf
        /\ vRoot' = call.rootHash
        /\ valid' = verifyProof(call.data, call.prf, call.rootHash)
    /\ vDone' = TRUE
    /\ UNCHANGED << cryptoOk, dataItems, pc, error, buildVars, treeVars,
                    proofVars, prev >>

\* App.buildTree run again on the edited input: the finished tree is replaced
\* by a build of the new list; prev remembers what the replaced tree answered.
Rebuild ==
    /\ pc \in { "built", "rejected" }
    /\ prev' = IF pc = "built"
               THEN << [items |-> dataItems, rootHash |-> getRootHash,
                        leafHashes |-> getLeafHashes] >>
               ELSE prev
    /\ dataItems' \in Edits(dataItems)
    /\ pc' = "idle"
    /\ error' = ""
    /\ hashes' = <<>> /\ pending' = {} /\ hashCalls' = 0 /\ heap' = <<>>
    /\ nodes' = <<>>
    /\ nextLevel' = <<>> /\ i' = 0 /\ levels' = <<>>
    /\ leaves' = <<>> /\ root' = 0 /\ leafMap' = <<>>
    /\ pDone' = FALSE /\ pIndex' = 0 /\ proof' = <<>> /\ pErr' = ""
    /\ vDone' = FALSE /\ vKind' = "" /\ vK' = 0 /\ vData' = <<>>
    /\ vProof' = <<>> /\ vRoot' = <<>> /\ valid' = FALSE
    /\ UNCHANGED cryptoOk

Next ==
    \/ Build
    \/ \E j \in 1..MaxItems : HashResolve(j)
    \/ MakeLeaves
    \/ BuildTreeStep
    \/ BuildTreeRecurse
    \/ BuildTreeReturn
    \/ \E index \in -1..MaxItems + 1 : GetProof(index)
    \/ VerifyProof

Spec == Init /\ [][Next]_vars

NextRebuild ==
    \/ Build
    \/ \E j \in 1..MaxItems : HashResolve(j)
    \/ MakeLeaves
    \/ BuildTreeStep
    \/ BuildTreeRecurse
    \/ BuildTreeReturn
    \/ Rebuild

InitRebuild ==
    /\ cryptoOk \in BOOLEAN
    /\ dataItems \in RebuildLists
    /\ pc = "idle"
    /\ error = ""
    /\ NoBuild
    /\ NoProof
    /\ NoVerify
    /\ prev = <<>>

SpecRebuild == InitRebuild /\ [][NextRebuild]_vars

(***************************************************************************)
(* Vocabulary of the properties.                                           *)
(***************************************************************************)
Built == pc = "built"

LeafCount == Len(leaves)

\* getProof returned a proof for the leaf pIndex.
HaveProof == pDone /\ pErr = "" /\ pIndex >= 0 /\ pIndex < LeafCount

RECURSIVE CeilLog2(_)
CeilLog2(n) == IF n <= 1 THEN 0 ELSE 1 + CeilLog2((n + 1) \div 2)

\* The ancestor of leaf idx (0-based) at level k; level 0 is the leaf level.
PathNode(idx, k) == levels[k + 1][(idx \div (2 ^ k)) + 1]

\* The digest and the side of the sibling of that ancestor, read off the
\* levels by position: an even position has its sibling on the right (its own
\* digest when it is the unpaired last node), an odd one on the left.
SiblingStep(idx, k) ==
    LET pos == idx \div (2 ^ k)
        lvl == levels[k + 1]
    IN IF pos % 2 = 0
       THEN [siblingHash |-> IF pos + 2 <= Len(lvl) THEN heap[lvl[pos + 2]].hash
                             ELSE heap[lvl[pos + 1]].hash,
             direction |-> "right"]
       ELSE [siblingHash |-> heap[lvl[pos]].hash, direction |-> "left"]

InternalNodes == { n \in 1..Len(heap) : ~heap[n].isLeaf }

\* The raw 32 bytes a 64-character hex digest spells.
FromHex(h) == [k |-> "raw", c |-> 0, p |-> h[1].p]

IsItem(data) == \E j \in 1..Len(dataItems) : dataItems[j] = data

\* C1: for every index i of a built tree, verifyProof(items[i], getProof(i),
\* getRootHash()) is true, and a repeated value gets the proof of its own
\* position: the first step names the right sibling for an even index and the
\* left sibling for an odd one.
C1_Completeness ==
    /\ (vDone /\ vKind = "none") => valid
    /\ (HaveProof /\ Len(proof) >= 1) =>
          proof[1].direction = (IF pIndex % 2 = 0 THEN "right" ELSE "left")

C1_Witness ==
    /\ vDone /\ vKind = "none" /\ valid
    /\ LeafCount >= 3
    /\ pIndex >= 1
    /\ dataItems[pIndex + 1] = dataItems[1]

\* C2 as stated: verifyProof returns false whenever the direction of one
\* step of a valid proof is flipped.
C2_Original == (vDone /\ vKind = "direction") => ~valid

\* C2 amended: with the direction of step k flipped, verifyProof returns
\* false exactly when the sibling digest of step k differs from the digest of
\* the path node at level k, and true when the two are equal.
C2_DirectionFlip ==
    (vDone /\ vKind = "direction") =>
        (valid <=> vProof[vK + 1].siblingHash = heap[PathNode(pIndex, vK)].hash)

C2_Witness ==
    /\ vDone /\ vKind = "direction" /\ ~valid
    /\ vK >= 1
    /\ vProof[vK + 1].siblingHash # heap[PathNode(pIndex, vK)].hash

C4_State ==
    /\ Len(dataItems) = 0 => pc \in { "idle", "rejected" }
    /\ (Len(dataItems) = 0 /\ pc = "rejected") =>
          /\ error = ErrEmpty
          /\ hashCalls = 0
          /\ heap = <<>> /\ leaves = <<>> /\ root = 0
    /\ (pDone /\ (pIndex < 0 \/ pIndex >= LeafCount)) =>
          pErr = ErrIndex /\ proof = <<>>
    /\ (pDone /\ pIndex >= 0 /\ pIndex < LeafCount) => pErr = ""

\* C4, the steps: no call on a built tree changes the tree.
C4_Step == Built => UNCHANGED << heap, leaves, root, leafMap, levels >>

\* C4: structurally invalid calls fail and produce nothing.
C4_InvalidCalls == [](C4_State) /\ [][C4_Step]_vars

C4_Witness ==
    /\ Built /\ pDone /\ LeafCount >= 2
    /\ pIndex = LeafCount
    /\ pErr = ErrIndex /\ proof = <<>>

\* C5: in whatever order the leaf digests complete, the digest stored for
\* item j is the digest of item j, the leaf hashes follow the input order, and
\* a build of the same list as the previous build has the same root hash and
\* the same leaf hashes.
C5_Deterministic ==
    /\ pc = "hashing" =>
          \A j \in 1..Len(hashes) : hashes[j] \in { <<>>, hash(dataItems[j]) }
    /\ Built =>
          /\ getLeafHashes = [j \in 1..Len(dataItems) |-> hash(dataItems[j])]
          /\ (prev # <<>> /\ prev[1].items = dataItems) =>
                /\ prev[1].rootHash = getRootHash
                /\ prev[1].leafHashes = getLeafHashes

\* The second digest completed while the first is pending, in a build of
\* the list the previous build was given.
C5_Witness ==
    /\ pc = "hashing"
    /\ Len(dataItems) >= 3
    /\ 1 \in pending /\ 2 \notin pending
    /\ dataItems[1] # dataItems[2]
    /\ prev # <<>> /\ prev[1].items = dataItems

LastParent(k) == levels[k + 1][Len(levels[k + 1])]

OddLevels == { k \in 1..Len(levels) - 1 : Len(levels[k]) % 2 = 1 }

Level(k) == { levels[k][j] : j \in 1..Len(levels[k]) }

Parents(n) == { m \in 1..Len(heap) : heap[m].left = n \/ heap[m].right = n }

\* C7: at every level of odd length above one the last node x is the left
\* child of its parent, the right child is another node with x's digest, no
\* children and no data, and the parent's digest is hash(x.hash + x.hash);
\* that right child is no leaf of the tree, is in no level and has one parent;
\* the proof of the last leaf of an odd leaf count above one starts with that
\* leaf's own digest on the right.
C7_OddDuplication ==
    /\ Built =>
          \A k \in OddLevels :
              LET x == levels[k][Len(levels[k])]
                  par == LastParent(k)
                  dup == heap[par].right
              IN /\ heap[par].left = x
                 /\ dup # x
                 /\ heap[dup].hash = heap[x].hash
                 /\ heap[dup].left = 0 /\ heap[dup].right = 0
                 /\ heap[dup].data = <<>>
                 /\ heap[par].hash = hash(heap[x].hash \o heap[x].hash)
                 /\ \A j \in 1..LeafCount : leaves[j] # dup
                 /\ \A m \in 1..Len(levels) : dup \notin Level(m)
                 /\ Parents(dup) = { par }
    /\ (HaveProof /\ LeafCount % 2 = 1 /\ LeafCount > 1 /\ pIndex = LeafCount - 1) =>
          proof[1] = [siblingHash |-> hash(dataItems[LeafCount]), direction |-> "right"]

\* The tree of five leaves: odd at the leaf level and at the level above.
C7_Witness ==
    /\ HaveProof
    /\ LeafCount = 5
    /\ pIndex = 4
    /\ OddLevels = { 1, 2 }
    /\ proof[2].siblingHash = heap[PathNode(4, 1)].hash

\* C8: the proof of leaf i of n leaves has ceil(log2 n) steps, the height of
\* the tree, and step k is the digest and the side of the sibling of the
\* ancestor of leaf i at level k; one leaf is its own root; for two items the
\* proofs are [(hash(b), right)] and [(hash(a), left)].
C8_ProofShape ==
    /\ Built => Len(levels) = CeilLog2(LeafCount) + 1
    /\ (Built /\ LeafCount = 1) =>
          root = leaves[1] /\ getRootHash = hash(dataItems[1])
    /\ HaveProof =>
          /\ Len(proof) = CeilLog2(LeafCount)
          /\ \A k \in 1..Len(proof) : proof[k] = SiblingStep(pIndex, k - 1)
    /\ (HaveProof /\ LeafCount = 2 /\ pIndex = 0) =>
          proof = << [siblingHash |-> hash(dataItems[2]), direction |-> "right"] >>
    /\ (HaveProof /\ LeafCount = 2 /\ pIndex = 1) =>
          proof = << [siblingHash |-> hash(dataItems[1]), direction |-> "left"] >>

C8_Witness ==
    /\ HaveProof
    /\ LeafCount = 5
    /\ pIndex = 3
    /\ Len(proof) = 3
    /\ proof[1].direction = "left" /\ proof[2].direction = "left"
    /\ proof[3].direction = "right"

\* C9: verifyProof against the root of a built tree returns true only for
\* data that is one of the items.
C9_Soundness == (vDone /\ valid /\ vRoot = getRootHash) => IsItem(vData)

\* C10: two builds of different lists have different root hashes.
C10_RootIdentifies ==
    (Built /\ prev # <<>> /\ prev[1].items # dataItems) =>
        prev[1].rootHash # getRootHash

====
